---- MODULE Spec2Model ----
(***************************************************************************)
(* A model of the transaction engine of src/main.rs: the account table,   *)
(* the ledger store (transactions) and the dispute flags (disbutes), the  *)
(* five events handle_record applies to them, and the csv rows            *)
(* parse_record turns into events.                                         *)
(*                                                                         *)
(* Amounts are f64: a value is held by the fields of its IEEE 754 binary64 *)
(* encoding, and +, - and parse round as the program's do (to nearest,    *)
(* ties to even).  Characters are Unicode scalar values.                   *)
(*                                                                         *)
(* The id spaces are scaled down: U16_MAX and U32_MAX stand for u16::MAX   *)
(* and u32::MAX.  As in Engine::new, the stores hold U16_MAX and U32_MAX   *)
(* slots (indices 0..MAX-1) while the ids of an event range over 0..MAX.   *)
(***************************************************************************)
EXTENDS Integers, Sequences, FiniteSets, TLC

\* Bounds of the model.
U16_MAX == 2
U32_MAX == 2
\* The positive decimal amounts of the events.
MaxAmount == 2
\* The events of a run: of any kind, with an amount of any kind, and kept
\* to the discipline of one owner per tx and one dispute at a time.
MaxEvents == 4
MaxAnyAmountEvents == 3
MaxDisciplinedEvents == 5
\* The rows of a csv input after its header.
MaxRows == 2

ClientIds == 0..U16_MAX
TxIds == 0..U32_MAX

----------------------------------------------------------------------------
\* Option<T>
None == [some |-> FALSE]
Some(v) == [some |-> TRUE, val |-> v]
IsSome(o) == o.some

\* Natural numbers of any size: little-endian sequences of limbs in base
\* 2^13, without leading zero limbs (zero is the empty sequence).
LimbBits == 13
Base == 8192

Min(a, b) == IF a <= b THEN a ELSE b
Max(a, b) == IF a >= b THEN a ELSE b

\* a without its leading zero limbs
NatNorm(a) ==
    IF \A i \in DOMAIN a : a[i] = 0 THEN <<>>
    ELSE SubSeq(a, 1, CHOOSE i \in DOMAIN a :
                          a[i] # 0 /\ \A j \in (i + 1)..Len(a) : a[j] = 0)

Limb(a, i) == IF i <= Len(a) THEN a[i] ELSE 0

\* Limbs i..j of a * k + b * s + c, and the carry out of limb j (the range
\* is halved, so that the depth of the recursion is logarithmic).
RECURSIVE NatLinear(_, _, _, _, _, _, _)
NatLinear(a, k, b, s, i, j, c) ==
    IF i > j THEN [limbs |-> <<>>, carry |-> c]
    ELSE IF i = j
    THEN LET t == Limb(a, i) * k + Limb(b, i) * s + c
         IN  [limbs |-> <<t % Base>>, carry |-> (t - (t % Base)) \div Base]
    ELSE LET m == (i + j) \div 2
             low == NatLinear(a, k, b, s, i, m, c)
             high == NatLinear(a, k, b, s, m + 1, j, low.carry)
         IN  [limbs |-> low.limbs \o high.limbs, carry |-> high.carry]

\* a * k + b * s + c, for a result that is not negative
NatCombine(a, k, b, s, c) ==
    LET r == NatLinear(a, k, b, s, 1, Max(Len(a), Len(b)), c)
    IN  NatNorm(r.limbs \o <<r.carry>>)

NatAdd(a, b) == NatCombine(a, 1, b, 1, 0)
\* a - b, for a >= b
NatSub(a, b) == NatCombine(a, 1, b, -1, 0)

\* a * (limbs i..j of b)
RECURSIVE NatMulRange(_, _, _, _)
NatMulRange(a, b, i, j) ==
    IF i = j THEN NatCombine(a, b[i], <<>>, 0, 0)
    ELSE LET m == (i + j) \div 2
         IN  NatAdd(NatMulRange(a, b, i, m),
                    [n \in 1..(m + 1 - i) |-> 0] \o NatMulRange(a, b, m + 1, j))
\* a * b
NatMul(a, b) == IF a = <<>> \/ b = <<>> THEN <<>> ELSE NatNorm(NatMulRange(a, b, 1, Len(b)))

\* -1, 0, 1 as a < b, a = b, a > b
NatCmp(a, b) ==
    IF Len(a) < Len(b) THEN -1
    ELSE IF Len(a) > Len(b) THEN 1
    ELSE IF a = b THEN 0
    ELSE LET i == CHOOSE i \in DOMAIN a :
                      a[i] # b[i] /\ \A j \in (i + 1)..Len(a) : a[j] = b[j]
         IN  IF a[i] < b[i] THEN -1 ELSE 1

\* a * 2^n
NatShl(a, n) ==
    LET q == n \div LimbBits
        r == n % LimbBits
        cut == 2^(LimbBits - r)
        up == [i \in 1..(Len(a) + 1) |->
                  (IF i <= Len(a) THEN (a[i] % cut) * 2^r ELSE 0)
                + (IF i > 1 THEN a[i - 1] \div cut ELSE 0)]
    IN  IF a = <<>> THEN <<>> ELSE [i \in 1..q |-> 0] \o NatNorm(up)

\* a \div 2^n
NatShr(a, n) ==
    LET q == n \div LimbBits
        r == n % LimbBits
        b == SubSeq(a, q + 1, Len(a))
    IN  NatNorm([i \in 1..Len(b) |->
                    (b[i] \div 2^r)
                  + (IF i < Len(b) THEN (b[i + 1] % 2^r) * 2^(LimbBits - r) ELSE 0)])

\* a % 2^n
NatLow(a, n) ==
    LET q == n \div LimbBits
        r == n % LimbBits
    IN  IF q >= Len(a) THEN a
        ELSE NatNorm(SubSeq(a, 1, q) \o <<a[q + 1] % 2^r>>)

\* bit n of a (bit 0 is the lowest)
NatBit(a, n) ==
    LET q == n \div LimbBits
    IN  IF q >= Len(a) THEN 0 ELSE (a[q + 1] \div 2^(n % LimbBits)) % 2

\* the number of bits of a: the least n with a < 2^n
NatBitLen(a) ==
    IF a = <<>> THEN 0
    ELSE LimbBits * (Len(a) - 1)
           + (CHOOSE n \in 1..LimbBits : 2^(n - 1) <= a[Len(a)] /\ a[Len(a)] < 2^n)

\* 10^k
RECURSIVE NatPow10(_)
NatPow10(k) ==
    IF k <= 3 THEN <<10^k>>
    ELSE NatMul(NatPow10(k \div 2), NatPow10(k - k \div 2))

\* The division of st.rem by b carried on over the quotient bits hi..lo:
\* st.quot with those bits added, and the remainder left.
RECURSIVE NatDivBits(_, _, _, _)
NatDivBits(st, b, hi, lo) ==
    IF hi = lo
    THEN LET t == NatShl(b, lo)
         IN  IF NatCmp(st.rem, t) >= 0
             THEN [quot |-> NatAdd(st.quot, NatShl(<<1>>, lo)), rem |-> NatSub(st.rem, t)]
             ELSE st
    ELSE LET m == (hi + lo + 1) \div 2
             upper == NatDivBits(st, b, hi, m)
         IN  IF upper.rem = <<>> THEN upper ELSE NatDivBits(upper, b, m - 1, lo)

\* quotient and remainder of a by b > 0, for a quotient below 2^n
NatDivMod(a, b, n) == NatDivBits([quot |-> <<>>, rem |-> a], b, n - 1, 0)

----------------------------------------------------------------------------
\* f64: the fields of the IEEE 754 binary64 encoding, the 52-bit fraction as
\* its upper and lower 26 bits.  bits = sign*2^63 + exp*2^52 + hi*2^26 + lo.
F64(sign, exp, hi, lo) == [sign |-> sign, exp |-> exp, hi |-> hi, lo |-> lo]

F64Zero(sign) == F64(sign, 0, 0, 0)
F64Inf(sign) == F64(sign, 2047, 0, 0)
\* f64::NAN; every NaN is held as this one (no operation of the program
\* tells NaNs apart).
F64NaN == F64(0, 2047, 33554432, 0)

IsNaN(x) == x.exp = 2047 /\ (x.hi # 0 \/ x.lo # 0)
IsInf(x) == x.exp = 2047 /\ x.hi = 0 /\ x.lo = 0
IsZero(x) == x.exp = 0 /\ x.hi = 0 /\ x.lo = 0
IsFinite(x) == x.exp < 2047

\* The f64 of sign * m * 2^e, for m below 2^53, e >= -1074, and m at
\* least 2^52 unless e = -1074.
F64Encode(sign, m, e) ==
    LET lo == Limb(m, 1) + Limb(m, 2) * Base
        hi == Limb(m, 3) + Limb(m, 4) * Base
    IN  IF Len(m) < 5 THEN F64(sign, 0, hi, lo)
        ELSE IF e + 1075 >= 2047 THEN F64Inf(sign)
        ELSE F64(sign, e + 1075, hi, lo)

\* m of 53 bits, or of 54 when the rounding has carried: m * 2^e encoded.
F64Carry(sign, m, e) ==
    IF NatBitLen(m) = 54 THEN F64Encode(sign, NatShr(m, 1), e + 1)
    ELSE F64Encode(sign, m, e)

\* The f64 nearest to sign * (m + s) * 2^e, ties to even, r the number of
\* low bits of m that are rounded away (0: none, and m is shifted up to 53
\* bits or to the least exponent).
F64RoundBy(sign, m, e, sticky, r) ==
    IF r = 0
    THEN F64Encode(sign, NatShl(m, Min(53 - NatBitLen(m), e + 1074)),
                   e - Min(53 - NatBitLen(m), e + 1074))
    ELSE F64Carry(sign,
                  IF /\ NatBit(m, r - 1) = 1
                     /\ (sticky \/ NatLow(m, r - 1) # <<>> \/ NatBit(m, r) = 1)
                  THEN NatAdd(NatShr(m, r), <<1>>)
                  ELSE NatShr(m, r),
                  e + r)

\* The f64 nearest to sign * (m + s) * 2^e, ties to even, where s is 0 or,
\* when sticky, some value strictly between 0 and 1 (roundTiesToEven).
F64Round(sign, m, e, sticky) ==
    F64RoundBy(sign, m, e, sticky, Max(0, Max(NatBitLen(m) - 53, (0 - 1074) - e)))

\* -x
F64Neg(x) == IF IsNaN(x) THEN F64NaN ELSE [x EXCEPT !.sign = 1 - @]

TwoPow26 == 67108864
TwoPow29 == 536870912

\* The number of bits of n, 0 <= n < 2^30: the least k with n < 2^k.
BitLen(n) ==
    IF n < 32768
    THEN IF n < 128
         THEN IF n < 8
              THEN (IF n < 2 THEN n ELSE IF n < 4 THEN 2 ELSE 3)
              ELSE (IF n < 16 THEN 4 ELSE IF n < 32 THEN 5 ELSE IF n < 64 THEN 6 ELSE 7)
         ELSE IF n < 2048
              THEN (IF n < 256 THEN 8 ELSE IF n < 512 THEN 9 ELSE IF n < 1024 THEN 10 ELSE 11)
              ELSE (IF n < 4096 THEN 12 ELSE IF n < 8192 THEN 13 ELSE IF n < 16384 THEN 14 ELSE 15)
    ELSE IF n < 8388608
         THEN IF n < 524288
              THEN (IF n < 65536 THEN 16 ELSE IF n < 131072 THEN 17 ELSE IF n < 262144 THEN 18 ELSE 19)
              ELSE (IF n < 1048576 THEN 20 ELSE IF n < 2097152 THEN 21 ELSE IF n < 4194304 THEN 22 ELSE 23)
         ELSE IF n < 134217728
              THEN (IF n < 16777216 THEN 24 ELSE IF n < 33554432 THEN 25 ELSE IF n < 67108864 THEN 26 ELSE 27)
              ELSE (IF n < 268435456 THEN 28 ELSE IF n < 536870912 THEN 29 ELSE 30)

\* |x| >= |y| as (exp, hi, lo) in lexicographic order.
MagnitudeGeq(x, y) ==
    \/ x.exp > y.exp
    \/ x.exp = y.exp /\ x.hi > y.hi
    \/ x.exp = y.exp /\ x.hi = y.hi /\ x.lo >= y.lo

\* The sum or difference of two finite non-zero f64.  A significand is held
\* with three more bits below it (guard, round, sticky) as h * 2^29 + l,
\* h < 2^27 and l < 2^29.

\* The f64 of the significand h * 2^26 + l, h below 2^27, and exponent field e.
Pack(sign, h, l, e) ==
    IF h < TwoPow26 THEN F64(sign, 0, h, l)
    ELSE IF e >= 2047 THEN F64Inf(sign)
    ELSE F64(sign, e, h - TwoPow26, l)

\* The same for l up to 2^26 and h up to 2^27 (a rounding that has carried).
Carry(sign, h, l, e) ==
    IF l < TwoPow26 THEN Pack(sign, h, l, e)
    ELSE IF h + 1 < 2 * TwoPow26 THEN Pack(sign, h + 1, 0, e)
    ELSE Pack(sign, TwoPow26, 0, e + 1)

\* Round h * 2^29 + l, of 56 bits or (exponent e = 1) fewer, to the 53 bits
\* above guard, round and sticky, ties to even, and encode it.
RoundGRS(sign, h, l, e) ==
    Carry(sign, h,
          (l \div 8) + (IF l % 8 > 4 \/ (l % 8 = 4 /\ (l \div 8) % 2 = 1) THEN 1 ELSE 0),
          e)

\* The sum h * 2^29 + l of two significands, of 57 bits or fewer.
SumRound(sign, h, l, e) ==
    IF h >= 2 * TwoPow26
    THEN RoundGRS(sign, h \div 2,
                  (h % 2) * 268435456 + l \div 2
                    + (IF l % 2 = 1 /\ (l \div 2) % 2 = 0 THEN 1 ELSE 0),
                  e + 1)
    ELSE RoundGRS(sign, h, l, e)

\* The difference h * 2^29 + l of two significands, not zero, shifted up by
\* z bits.
DiffShift(sign, h, l, e, z) ==
    IF z < 29
    THEN RoundGRS(sign, h * 2^z + l \div 2^(29 - z), (l % 2^(29 - z)) * 2^z, e - z)
    ELSE RoundGRS(sign, l * 2^(z - 29), 0, e - z)

\* The difference h * 2^29 + l of two significands: shifted up to 56 bits,
\* or as far as the least exponent allows.
DiffRound(sign, h, l, e) ==
    IF h = 0 /\ l = 0 THEN F64Zero(0)
    ELSE DiffShift(sign, h, l, e,
                   Min(56 - (IF h # 0 THEN 29 + BitLen(h) ELSE BitLen(l)), e - 1))

\* xh * 2^29 + xl plus (same) or minus yh * 2^29 + yl, which is not larger.
AddAligned(sign, same, e, xh, xl, yh, yl) ==
    IF same
    THEN SumRound(sign, xh + yh + (xl + yl) \div TwoPow29, (xl + yl) % TwoPow29, e)
    ELSE DiffRound(sign, xh - yh - (IF xl < yl THEN 1 ELSE 0),
                   IF xl < yl THEN xl - yl + TwoPow29 ELSE xl - yl, e)

\* The significand yh * 2^29 + yl shifted down by d bits: its upper part,
\* its lower part, and whether a bit that is not 0 is shifted out.
ShiftHi(yh, d) == IF d < 29 THEN yh \div 2^d ELSE 0
ShiftLo(yh, yl, d) ==
    IF d < 29 THEN (yl \div 2^d) + (yh % 2^d) * 2^(29 - d)
    ELSE IF d < 56 THEN yh \div 2^(d - 29)
    ELSE 0
ShiftLost(yh, yl, d) ==
    IF d < 29 THEN yl % 2^d # 0
    ELSE IF d < 56 THEN yl # 0 \/ yh % 2^(d - 29) # 0
    ELSE TRUE

\* The lower part l with the sticky bit set when a bit has been lost.
Sticky(l, lost) == IF lost /\ l % 2 = 0 THEN l + 1 ELSE l

\* The exponent and the upper 27 bits of the significand of a finite x (a
\* subnormal has the exponent of the least normal and no hidden bit).
ExpOf(x) == IF x.exp = 0 THEN 1 ELSE x.exp
HiOf(x) == IF x.exp = 0 THEN x.hi ELSE x.hi + TwoPow26

\* xh * 2^29 + xl plus (same) or minus yh * 2^29 + yl shifted down by d bits.
AddShifted(sign, same, e, xh, xl, yh, yl, d) ==
    AddAligned(sign, same, e, xh, xl, ShiftHi(yh, d),
               Sticky(ShiftLo(yh, yl, d), ShiftLost(yh, yl, d)))

\* x + y for finite non-zero x and y, x of the larger magnitude.
AddFinite(x, y) ==
    AddShifted(x.sign, x.sign = y.sign, ExpOf(x), HiOf(x), x.lo * 8,
               HiOf(y), y.lo * 8, ExpOf(x) - ExpOf(y))

\* x + y for finite non-zero x and y, geq telling that x is of the larger
\* magnitude.
AddOrdered(x, y, geq) == IF geq THEN AddFinite(x, y) ELSE AddFinite(y, x)

\* x + y (roundTiesToEven)
F64Add(x, y) ==
    IF IsNaN(x) \/ IsNaN(y) THEN F64NaN
    ELSE IF IsInf(x) THEN (IF IsInf(y) /\ x.sign # y.sign THEN F64NaN ELSE x)
    ELSE IF IsInf(y) THEN y
    ELSE IF IsZero(x) /\ IsZero(y)
         THEN F64Zero(IF x.sign = 1 /\ y.sign = 1 THEN 1 ELSE 0)
    ELSE IF IsZero(x) THEN y
    ELSE IF IsZero(y) THEN x
    ELSE AddOrdered(x, y, MagnitudeGeq(x, y))

\* x - y
F64Sub(x, y) == F64Add(x, F64Neg(y))

\* x == y
F64Eq(x, y) ==
    /\ ~IsNaN(x)
    /\ ~IsNaN(y)
    /\ (x = y \/ (IsZero(x) /\ IsZero(y)))

----------------------------------------------------------------------------
\* Characters are Unicode scalar values, strings sequences of them.
IsDigit(ch) == ch \in 48..57
DigitVal(ch) == ch - 48

\* char::is_whitespace: the characters with the property White_Space.
IsSpace(ch) ==
    ch \in (9..13) \cup {32, 133, 160, 5760} \cup (8192..8202)
             \cup {8232, 8233, 8239, 8287, 12288}

\* The length of the longest prefix of s whose characters all satisfy P.
PrefixLen(P(_), s) ==
    IF \A i \in DOMAIN s : P(s[i]) THEN Len(s)
    ELSE (CHOOSE i \in DOMAIN s : ~P(s[i]) /\ \A j \in 1..(i - 1) : P(s[j])) - 1

Reverse(s) == [i \in DOMAIN s |-> s[Len(s) + 1 - i]]

\* str::trim_start, str::trim_end, str::trim
TrimStart(s) == SubSeq(s, PrefixLen(IsSpace, s) + 1, Len(s))
TrimEnd(s) == SubSeq(s, 1, Len(s) - PrefixLen(IsSpace, Reverse(s)))
Trim(s) == TrimEnd(TrimStart(s))

\* The number of digits s starts with.
DigitsPrefix(s) == PrefixLen(IsDigit, s)

\* s without its leading '0' characters
IsZeroChar(ch) == ch = 48
StripZeros(s) == SubSeq(s, PrefixLen(IsZeroChar, s) + 1, Len(s))

\* The value of the digits s[i..j] appended to the digits of value v, or
\* max + 1 when it is above max.
RECURSIVE DigitsValue(_, _, _, _, _)
DigitsValue(v, s, i, j, max) ==
    IF i > j THEN v
    ELSE IF i = j
    THEN IF v > max \/ v > (max - DigitVal(s[i])) \div 10 THEN max + 1
         ELSE 10 * v + DigitVal(s[i])
    ELSE LET left == DigitsValue(v, s, i, (i + j) \div 2, max)
         IN  IF left > max THEN max + 1
             ELSE DigitsValue(left, s, (i + j) \div 2 + 1, j, max)

\* str::parse::<u16>, str::parse::<u32> (max the type's MAX): Err (None) on
\* an empty string, on a lone sign, on a character that is no digit (one
\* leading '+' is skipped) and on a value above max.
ParseUnsigned(s, max) ==
    LET digits == IF s # <<>> /\ Head(s) = 43 THEN Tail(s) ELSE s
    IN  IF s = <<>> THEN None
        ELSE IF Len(s) = 1 /\ Head(s) \in {43, 45} THEN None
        ELSE IF \E k \in DOMAIN digits : ~IsDigit(digits[k]) THEN None
        ELSE IF DigitsValue(0, digits, 1, Len(digits), max) > max THEN None
        ELSE Some(DigitsValue(0, digits, 1, Len(digits), max))

\* ASCII letters in lower case (the letters inf, infinity and nan are matched
\* in either case).
Lower(ch) == IF ch \in 65..90 THEN ch + 32 ELSE ch
LowerStr(s) == [i \in DOMAIN s |-> Lower(s[i])]

\* The natural number written by the digits s[i..j].
RECURSIVE NatOfDigits(_, _, _)
NatOfDigits(s, i, j) ==
    IF i > j THEN <<>>
    ELSE IF i = j THEN NatNorm(<<DigitVal(s[i])>>)
    ELSE LET m == (i + j) \div 2
         IN  NatAdd(NatMul(NatOfDigits(s, i, m), NatPow10(j - m)),
                    NatOfDigits(s, m + 1, j))

\* The exponent written by the digits s, as dec2flt accumulates it: a digit
\* is taken in only while the value is below 0x10000.
RECURSIVE ExpOfDigits(_, _)
ExpOfDigits(v, s) ==
    IF s = <<>> \/ v >= 65536 THEN v
    ELSE ExpOfDigits(10 * v + DigitVal(Head(s)), Tail(s))

\* The digits of a mantissa that are converted; what follows them only
\* tells whether the value lies above the one converted.
MaxDigits == 768

\* The f64 nearest to sign * (num / den) * (1 + s), ties to even, where s
\* is 0 or, when sticky, too small to be told: the quotient is computed to
\* 56 or 57 bits.
F64OfQuotient(sign, d, e, sticky) == F64Round(sign, d.quot, e, sticky \/ d.rem # <<>>)
F64OfShifted(sign, num, den, k, sticky) ==
    F64OfQuotient(sign,
                  NatDivMod(IF k >= 0 THEN NatShl(num, k) ELSE num,
                            IF k >= 0 THEN den ELSE NatShl(den, 0 - k), 57),
                  0 - k, sticky)
F64OfRatio(sign, num, den, sticky) ==
    F64OfShifted(sign, num, den, 55 - (NatBitLen(num) - NatBitLen(den)), sticky)

\* The f64 nearest to sign * w * 10^q
F64OfScaled(sign, w, q, sticky) ==
    F64OfRatio(sign,
               IF q >= 0 THEN NatMul(w, NatPow10(q)) ELSE w,
               IF q >= 0 THEN <<1>> ELSE NatPow10(0 - q),
               sticky)

\* The f64 nearest to sign * 0.d1d2... * 10^dp, ties to even, for digits
\* d1 d2 ... without leading zeros.
F64OfDecimal(sign, digits, dp) ==
    IF digits = <<>> THEN F64Zero(sign)
    ELSE IF dp > 310 THEN F64Inf(sign)
    ELSE IF dp < -330 THEN F64Zero(sign)
    ELSE F64OfScaled(sign,
                     NatOfDigits(digits, 1, Min(Len(digits), MaxDigits)),
                     dp - Min(Len(digits), MaxDigits),
                     \E i \in (MaxDigits + 1)..Len(digits) : digits[i] # 48)

\* The f64 nearest to sign * (the number the digits write) * 10^e
F64OfStripped(sign, digits, e) == F64OfDecimal(sign, digits, Len(digits) + e)
F64OfMantissa(sign, digits, e) == F64OfStripped(sign, StripZeros(digits), e)

\* [sign] inf | infinity | nan, the letters in either case
ParseWord(sign, word) ==
    IF word = <<105, 110, 102>> \/ word = <<105, 110, 102, 105, 110, 105, 116, 121>>
    THEN Some(F64Inf(sign))
    ELSE IF word = <<110, 97, 110>> THEN Some(F64NaN)
    ELSE None

\* The exponent digits of a number: body ends with them, its mantissa the ni
\* digits before and the nf digits after position dot.
ParseExpDigits(sign, body, ni, nf, dot, neg, digits) ==
    IF digits = <<>> \/ (\E k \in DOMAIN digits : ~IsDigit(digits[k]))
    THEN None
    ELSE Some(F64OfMantissa(sign,
                            SubSeq(body, 1, ni) \o SubSeq(body, dot + 1, dot + nf),
                            (IF neg THEN 0 - ExpOfDigits(0, StripZeros(digits))
                                    ELSE ExpOfDigits(0, StripZeros(digits))) - nf))

\* What follows the mantissa of a number, from position p + 1 on: nothing
\* (the exponent is 0), or e or E, an optional sign and the exponent digits.
ParseExp(sign, body, ni, nf, dot, p) ==
    IF p < Len(body) /\ body[p + 1] \notin {101, 69} THEN None
    ELSE ParseExpDigits(sign, body, ni, nf, dot,
                        p + 1 < Len(body) /\ body[p + 2] = 45,
                        IF p = Len(body) THEN <<48>>
                        ELSE IF p + 1 < Len(body) /\ body[p + 2] \in {43, 45}
                        THEN SubSeq(body, p + 3, Len(body))
                        ELSE SubSeq(body, p + 2, Len(body)))

\* A number with ni digits before and nf digits after position dot; with no
\* digit at all it is no number, and may be inf or nan.
ParseMantissa(sign, body, ni, nf, dot) ==
    IF ni + nf = 0 THEN ParseWord(sign, LowerStr(body))
    ELSE ParseExp(sign, body, ni, nf, dot, dot + nf)

\* A number with ni digits before the point, if it has one.
ParseFraction(sign, body, ni) ==
    ParseMantissa(sign, body, ni,
                  IF ni < Len(body) /\ body[ni + 1] = 46
                  THEN DigitsPrefix(SubSeq(body, ni + 2, Len(body))) ELSE 0,
                  IF ni < Len(body) /\ body[ni + 1] = 46 THEN ni + 1 ELSE ni)

\* The number after the sign.
ParseBody(sign, body) == ParseFraction(sign, body, DigitsPrefix(body))

\* str::parse::<f64> (dec2flt): [sign] digits [. digits] [e [sign] digits]
\* with a digit before or after the point, or [sign] inf | infinity | nan in
\* either case; Err (None) otherwise.
ParseAmount(s) ==
    IF s = <<>> THEN None
    ELSE ParseBody(IF Head(s) = 45 THEN 1 ELSE 0,
                   IF Head(s) \in {43, 45} THEN Tail(s) ELSE s)

----------------------------------------------------------------------------
\* The amounts of the events, each the f64 its decimal text parses to.
Decimal(text) == ParseAmount(text).val

\* Positive decimal amounts: 2.0, 0.1, 1.0, 0.0001.
DecimalTexts ==
    << <<50, 46, 48>>, <<48, 46, 49>>, <<49, 46, 48>>, <<48, 46, 48, 48, 48, 49>> >>
Amounts == {Decimal(DecimalTexts[i]) : i \in 1..Min(MaxAmount, Len(DecimalTexts))}

\* Amounts that are no positive decimal, which handle_record takes as well:
\* 0.0, -1.0, inf, NaN.
OtherTexts == {<<48, 46, 48>>, <<45, 49, 46, 48>>, <<105, 110, 102>>, <<78, 97, 78>>}
AnyAmounts == Amounts \cup {Decimal(t) : t \in OtherTexts}

\* Fixed-point amounts: whole numbers of the smallest unit, 1.0, 2.0, 3.0.
\* On whole numbers below 2^53 the f64 + and - of the program do not round.
FixedPointTexts == << <<49, 46, 48>>, <<50, 46, 48>>, <<51, 46, 48>> >>
FixedPointAmounts ==
    {Decimal(FixedPointTexts[i]) : i \in 1..Min(MaxAmount, Len(FixedPointTexts))}

VARIABLES
    transactions,   \* Engine.transactions: Vec<f64>, the signed amount per tx slot
    clients,        \* Engine.clients: Vec<Option<Client>>
    disbutes,       \* Engine.disbutes: BitVec, the dispute flag per tx slot
    panicked,       \* TRUE once an indexing operation or an unwrap has panicked (the run is aborted)
    record,         \* the record handle_record was last called with (NoRec: none)
    pre,            \* the engine as it was when handle_record was last called
    recorded,       \* history: the tx ids a Deposit/Withdrawal has stored an amount under
    accepted,       \* history: per tx id, an accepted Dispute is not yet resolved/charged back
    closed,         \* history: the tx ids an accepted Resolve/Chargeback has named
    steps,          \* number of records handled so far
    recordedPre,    \* history: the value of recorded when handle_record was last called
    owner,          \* history: per tx id, the account whose Deposit/Withdrawal last stored its amount
    used,           \* history: the tx ids named by a Deposit/Withdrawal, applied or not
    touched,        \* history: the account ids named by an event of any kind
    funded,         \* history: the account ids named by a Deposit/Withdrawal
    wellFormed,     \* history: no tx id reused, no foreign, unrecorded or double dispute so far
    input,          \* what the records are read from: "Str" (from_str), "File" (read_file), "None" (neither called)
    row,            \* the csv row the last turn of the records loop has read (NoRow: none)
    first_field_count,  \* csv::Reader: the number of fields of the first record, the header (0: not read)
    error           \* the Err read_file or from_str has returned (NoError: none)

vars == <<transactions, clients, disbutes, panicked, record, pre, recorded, accepted, closed, steps, recordedPre, owner, used, touched,
          funded, wellFormed, input, row, first_field_count, error>>

----------------------------------------------------------------------------
\* Vec::get / Vec::get_mut / BitVec::get: None when the index is out of bounds.
VecGet(v, i) == IF i \in DOMAIN v THEN Some(v[i]) ELSE None

\* Client::new
ClientNew(id) ==
    [id |-> id, available |-> F64Zero(0), held |-> F64Zero(0), total |-> F64Zero(0),
     locked |-> FALSE]

\* Engine::new: vec![0.0; u32::MAX], vec![None; u16::MAX], BitVec::from_elem(u32::MAX, false)
EngineNew ==
    [transactions |-> [t \in 0..(U32_MAX - 1) |-> F64Zero(0)],
     clients      |-> [c \in 0..(U16_MAX - 1) |-> None],
     disbutes     |-> [t \in 0..(U32_MAX - 1) |-> FALSE],
     panicked     |-> FALSE]

\* Option<Option<Client>> flattened: the pattern Some(Some(client)) of clients.get_mut(id)
GetClient(e, id) ==
    IF id \in DOMAIN e.clients THEN e.clients[id] ELSE None

\* An indexing expression v[i] = x: panics when i is out of bounds.
Panic(e) == [e EXCEPT !.panicked = TRUE]

\* Engine::transaction keeping the amount already stored under a tx id.
transaction_KeepFirst(e, id, tx, amount) ==
    LET c == GetClient(e, id) IN
    IF IsSome(c) /\ c.val.locked
    THEN e
    ELSE
        LET e1 ==
                IF IsSome(c)
                THEN [e EXCEPT !.clients[id] =
                         Some([c.val EXCEPT !.total = F64Add(@, amount),
                                            !.available = F64Add(@, amount)])]
                ELSE IF id \in DOMAIN e.clients
                     THEN [e EXCEPT !.clients[id] =
                              Some([ClientNew(id) EXCEPT !.available = amount,
                                                         !.total = amount])]
                     ELSE Panic(e)
        IN  IF e1.panicked
            THEN e1
            ELSE IF tx \in DOMAIN e1.transactions
                 THEN IF IsZero(e1.transactions[tx])
                      THEN [e1 EXCEPT !.transactions[tx] = amount]
                      ELSE e1
                 ELSE Panic(e1)

\* Engine::transaction never matching an existing account: it always
\* stores a new client under the id.
transaction_AlwaysNew(e, id, tx, amount) ==
    LET e1 ==
            IF id \in DOMAIN e.clients
            THEN [e EXCEPT !.clients[id] =
                     Some([ClientNew(id) EXCEPT !.available = amount,
                                                !.total = amount])]
            ELSE Panic(e)
    IN  IF e1.panicked
        THEN e1
        ELSE IF tx \in DOMAIN e1.transactions
             THEN [e1 EXCEPT !.transactions[tx] = amount]
             ELSE Panic(e1)

\* Engine::transaction without the early return on a locked account.
transaction_NoLockCheck(e, id, tx, amount) ==
    LET c == GetClient(e, id) IN
    LET e1 ==
            IF IsSome(c)
            THEN [e EXCEPT !.clients[id] =
                     Some([c.val EXCEPT !.total = F64Add(@, amount),
                                        !.available = F64Add(@, amount)])]
            ELSE IF id \in DOMAIN e.clients
                 THEN [e EXCEPT !.clients[id] =
                          Some([ClientNew(id) EXCEPT !.available = amount,
                                                     !.total = amount])]
                 ELSE Panic(e)
    IN  IF e1.panicked
        THEN e1
        ELSE IF tx \in DOMAIN e1.transactions
             THEN [e1 EXCEPT !.transactions[tx] = amount]
             ELSE Panic(e1)

\* Engine::transaction
transaction(e, id, tx, amount) ==
    LET c == GetClient(e, id) IN
    IF IsSome(c) /\ c.val.locked
    THEN e
    ELSE
        LET e1 ==
                IF IsSome(c)
                THEN [e EXCEPT !.clients[id] =
                         Some([c.val EXCEPT !.total = F64Add(@, amount),
                                            !.available = F64Add(@, amount)])]
                ELSE IF id \in DOMAIN e.clients
                     THEN [e EXCEPT !.clients[id] =
                              Some([ClientNew(id) EXCEPT !.available = amount,
                                                         !.total = amount])]
                     ELSE Panic(e)
        IN  IF e1.panicked
            THEN e1
            ELSE IF tx \in DOMAIN e1.transactions
                 THEN [e1 EXCEPT !.transactions[tx] = amount]
                 ELSE Panic(e1)

\* Engine::dispute skipping a locked account.
dispute_Gated(e, id, tx) ==
    LET c == GetClient(e, id)
        a == VecGet(e.transactions, tx)
    IN  IF IsSome(c) /\ ~c.val.locked /\ IsSome(a)
        THEN [e EXCEPT !.clients[id] =
                           Some([c.val EXCEPT !.available = F64Sub(@, a.val),
                                              !.held = F64Add(@, a.val)]),
                       !.disbutes[tx] = TRUE]
        ELSE e

\* Engine::dispute looking the account up under the tx id.
dispute_AccountByTx(e, id, tx) ==
    LET c == GetClient(e, tx)
        a == VecGet(e.transactions, tx)
    IN  IF IsSome(c) /\ IsSome(a)
        THEN [e EXCEPT !.clients[tx] =
                           Some([c.val EXCEPT !.available = F64Sub(@, a.val),
                                              !.held = F64Add(@, a.val)]),
                       !.disbutes[tx] = TRUE]
        ELSE e

\* Engine::dispute creating the account it names when there is none.
dispute_CreatesAccount(e, id, tx) ==
    LET c == IF IsSome(GetClient(e, id)) \/ id \notin DOMAIN e.clients
             THEN GetClient(e, id)
             ELSE Some(ClientNew(id))
        a == VecGet(e.transactions, tx)
    IN  IF IsSome(c) /\ IsSome(a)
        THEN [e EXCEPT !.clients[id] =
                           Some([c.val EXCEPT !.available = F64Sub(@, a.val),
                                              !.held = F64Add(@, a.val)]),
                       !.disbutes[tx] = TRUE]
        ELSE e

\* Engine::dispute without the increase of held.
dispute_NoHold(e, id, tx) ==
    LET c == GetClient(e, id)
        a == VecGet(e.transactions, tx)
    IN  IF IsSome(c) /\ IsSome(a)
        THEN [e EXCEPT !.clients[id] =
                           Some([c.val EXCEPT !.available = F64Sub(@, a.val)]),
                       !.disbutes[tx] = TRUE]
        ELSE e

\* Engine::dispute
dispute(e, id, tx) ==
    LET c == GetClient(e, id)
        a == VecGet(e.transactions, tx)
    IN  IF IsSome(c) /\ IsSome(a)
        THEN [e EXCEPT !.clients[id] =
                           Some([c.val EXCEPT !.available = F64Sub(@, a.val),
                                              !.held = F64Add(@, a.val)]),
                       !.disbutes[tx] = TRUE]
        ELSE e

\* Engine::resolve without the test of the dispute flag.
resolve_NoFlagCheck(e, id, tx) ==
    LET c == GetClient(e, id)
        a == VecGet(e.transactions, tx)
    IN  IF IsSome(c) /\ IsSome(a)
        THEN [e EXCEPT !.clients[id] =
                           Some([c.val EXCEPT !.available = F64Add(@, a.val),
                                              !.held = F64Sub(@, a.val)]),
                       !.disbutes[tx] = FALSE]
        ELSE e

\* Engine::resolve
resolve(e, id, tx) ==
    LET c == GetClient(e, id)
        a == VecGet(e.transactions, tx)
    IN  IF IsSome(c) /\ IsSome(a) /\ VecGet(e.disbutes, tx) = Some(TRUE)
        THEN [e EXCEPT !.clients[id] =
                           Some([c.val EXCEPT !.available = F64Add(@, a.val),
                                              !.held = F64Sub(@, a.val)]),
                       !.disbutes[tx] = FALSE]
        ELSE e

\* Engine::chargeback without freezing the account.
chargeback_NoLock(e, id, tx) ==
    LET c == GetClient(e, id)
        a == VecGet(e.transactions, tx)
    IN  IF IsSome(c) /\ IsSome(a) /\ VecGet(e.disbutes, tx) = Some(TRUE)
        THEN [e EXCEPT !.clients[id] =
                           Some([c.val EXCEPT !.total = F64Sub(@, a.val),
                                              !.held = F64Sub(@, a.val)]),
                       !.disbutes[tx] = FALSE]
        ELSE e

\* Engine::chargeback without taking the amount off total.
chargeback_KeepsTotal(e, id, tx) ==
    LET c == GetClient(e, id)
        a == VecGet(e.transactions, tx)
    IN  IF IsSome(c) /\ IsSome(a) /\ VecGet(e.disbutes, tx) = Some(TRUE)
        THEN [e EXCEPT !.clients[id] =
                           Some([c.val EXCEPT !.held = F64Sub(@, a.val),
                                              !.locked = TRUE]),
                       !.disbutes[tx] = FALSE]
        ELSE e

\* Engine::chargeback
chargeback(e, id, tx) ==
    LET c == GetClient(e, id)
        a == VecGet(e.transactions, tx)
    IN  IF IsSome(c) /\ IsSome(a) /\ VecGet(e.disbutes, tx) = Some(TRUE)
        THEN [e EXCEPT !.clients[id] =
                           Some([c.val EXCEPT !.total = F64Sub(@, a.val),
                                              !.held = F64Sub(@, a.val),
                                              !.locked = TRUE]),
                       !.disbutes[tx] = FALSE]
        ELSE e

\* The clients of slots lo..hi-1 that are Some, in slot order
\* (self.clients.iter().filter_map(|c| *c)).
RECURSIVE FilterMap(_, _, _)
FilterMap(cs, lo, hi) ==
    IF lo >= hi
    THEN <<>>
    ELSE (IF IsSome(cs[lo]) THEN <<cs[lo].val>> ELSE <<>>) \o FilterMap(cs, lo + 1, hi)

\* Engine::dump_clients leaving out the locked accounts.
dump_clients_SkipLocked(e) ==
    SelectSeq(FilterMap(e.clients, 0, U16_MAX), LAMBDA c : ~c.locked)

\* Engine::dump_clients: the clients printed, one row each, in order.
dump_clients(e) == FilterMap(e.clients, 0, U16_MAX)

\* enum Transaction
DepositRec(id, tx, amount) == [type |-> "Deposit", id |-> id, tx |-> tx, amount |-> amount]
WithdrawalRec(id, tx, amount) == [type |-> "Withdrawal", id |-> id, tx |-> tx, amount |-> amount]
DisputeRec(id, tx) == [type |-> "Dispute", id |-> id, tx |-> tx]
ResolveRec(id, tx) == [type |-> "Resolve", id |-> id, tx |-> tx]
ChargebackRec(id, tx) == [type |-> "Chargeback", id |-> id, tx |-> tx]
\* No record handled.
NoRec == [type |-> "None", id |-> 0, tx |-> 0]

\* Engine::handle_record
handle_record(e, r) ==
    CASE r.type = "Deposit"    -> transaction(e, r.id, r.tx, r.amount)
      [] r.type = "Withdrawal" -> transaction(e, r.id, r.tx, F64Neg(r.amount))
      [] r.type = "Dispute"    -> dispute(e, r.id, r.tx)
      [] r.type = "Resolve"    -> resolve(e, r.id, r.tx)
      [] r.type = "Chargeback" -> chargeback(e, r.id, r.tx)

----------------------------------------------------------------------------
\* The engine held by the variables.
Engine ==
    [transactions |-> transactions, clients |-> clients,
     disbutes |-> disbutes, panicked |-> panicked]

\* The signed amount handle_record passes to Engine::transaction.
SignedAmount(r) == IF r.type = "Withdrawal" THEN F64Neg(r.amount) ELSE r.amount

IsTransaction(r) == r.type \in {"Deposit", "Withdrawal"}

\* History: the record r, handled in engine e, stores an amount under r.tx
\* (the write of Engine::transaction's last line is reached and in bounds).
Records(e, r) ==
    /\ IsTransaction(r)
    /\ r.id \in DOMAIN e.clients
    /\ r.tx \in DOMAIN e.transactions
    /\ ~(IsSome(e.clients[r.id]) /\ e.clients[r.id].val.locked)

\* History: the Dispute r is accepted in engine e: its account exists and an
\* earlier Deposit/Withdrawal has recorded an amount under its tx.
DisputeAccepted(e, r, rec) ==
    /\ r.type = "Dispute"
    /\ IsSome(GetClient(e, r.id))
    /\ r.tx \in rec

\* History: the Resolve/Chargeback r is accepted in engine e: its account
\* exists and its tx is marked disputed.
CloseAccepted(e, r) ==
    /\ r.type \in {"Resolve", "Chargeback"}
    /\ IsSome(GetClient(e, r.id))
    /\ VecGet(e.disbutes, r.tx) = Some(TRUE)

\* History: the tx of r has a recorded owner other than the account r names.
Foreign(r, own) ==
    /\ r.tx \in DOMAIN own
    /\ IsSome(own[r.tx])
    /\ own[r.tx].val # r.id

\* History: the account r names has recorded the tx of r.
Owned(r, own) ==
    /\ r.tx \in DOMAIN own
    /\ own[r.tx] = Some(r.id)

\* History: the record r, handled in engine e, keeps to the discipline: a
\* Deposit/Withdrawal names a tx id no Deposit/Withdrawal has named; a
\* Dispute/Resolve/Chargeback names the account that recorded its tx; a
\* Dispute names a recorded tx that is not marked disputed.
Disciplined(e, r, rec, own, usd) ==
    /\ IsTransaction(r) => r.tx \notin usd
    /\ ~IsTransaction(r) => Owned(r, own)
    /\ r.type = "Dispute" => (r.tx \in rec /\ VecGet(e.disbutes, r.tx) = Some(FALSE))

\* No csv row read.
NoRow == <<>>

\* The Err values of read_file and from_str: of File::open; of the reader
\* on a read of the file (an I/O error, bytes that are no UTF-8); of the
\* reader on a record whose number of fields is not the first record's.
NoError == "None"
OpenError == "Open"
ReadError == "Read"
UnequalLengths == "UnequalLengths"

Init ==
    /\ transactions = EngineNew.transactions
    /\ clients = EngineNew.clients
    /\ disbutes = EngineNew.disbutes
    /\ panicked = EngineNew.panicked
    /\ record = NoRec
    /\ pre = EngineNew
    /\ recorded = {}
    /\ accepted = [t \in TxIds |-> FALSE]
    /\ closed = {}
    /\ steps = 0
    /\ recordedPre = {}
    /\ owner = [t \in TxIds |-> None]
    /\ used = {}
    /\ touched = {}
    /\ funded = {}
    /\ wellFormed = TRUE
    /\ input = "None"
    /\ row = NoRow
    /\ first_field_count = 0
    /\ error = NoError

\* One call of handle_record (a panic aborts the run: no call follows it).
Apply(r) ==
    /\ ~panicked
    /\ LET e == handle_record(Engine, r) IN
        /\ transactions' = e.transactions
        /\ clients' = e.clients
        /\ disbutes' = e.disbutes
        /\ panicked' = e.panicked
    /\ record' = r
    /\ pre' = Engine
    /\ recorded' = IF Records(Engine, r) THEN recorded \cup {r.tx} ELSE recorded
    /\ accepted' = IF DisputeAccepted(Engine, r, recorded)
                   THEN [accepted EXCEPT ![r.tx] = TRUE]
                   ELSE IF CloseAccepted(Engine, r)
                        THEN [accepted EXCEPT ![r.tx] = FALSE]
                        ELSE accepted
    /\ closed' = IF CloseAccepted(Engine, r) THEN closed \cup {r.tx} ELSE closed
    /\ steps' = steps + 1
    /\ recordedPre' = recorded
    /\ owner' = IF Records(Engine, r) THEN [owner EXCEPT ![r.tx] = Some(r.id)] ELSE owner
    /\ used' = IF IsTransaction(r) THEN used \cup {r.tx} ELSE used
    /\ touched' = touched \cup {r.id}
    /\ funded' = IF IsTransaction(r) THEN funded \cup {r.id} ELSE funded
    /\ wellFormed' = (wellFormed /\ Disciplined(Engine, r, recorded, owner, used))

\* handle_record, Transaction::Deposit arm: one of at most max calls, the
\* amount one of amounts
Deposit(amounts, max) ==
    \E id \in ClientIds, tx \in TxIds, amount \in amounts :
        /\ steps < max
        /\ Apply(DepositRec(id, tx, amount))
        /\ record'.type = "Deposit"
        /\ UNCHANGED <<input, row, first_field_count, error>>

\* handle_record, Transaction::Withdrawal arm
Withdrawal(amounts, max) ==
    \E id \in ClientIds, tx \in TxIds, amount \in amounts :
        /\ steps < max
        /\ Apply(WithdrawalRec(id, tx, amount))
        /\ record'.type = "Withdrawal"
        /\ UNCHANGED <<input, row, first_field_count, error>>

\* handle_record, Transaction::Dispute arm
Dispute(max) ==
    \E id \in ClientIds, tx \in TxIds :
        /\ steps < max
        /\ Apply(DisputeRec(id, tx))
        /\ record'.type = "Dispute"
        /\ UNCHANGED <<input, row, first_field_count, error>>

\* handle_record, Transaction::Resolve arm
Resolve(max) ==
    \E id \in ClientIds, tx \in TxIds :
        /\ steps < max
        /\ Apply(ResolveRec(id, tx))
        /\ record'.type = "Resolve"
        /\ UNCHANGED <<input, row, first_field_count, error>>

\* handle_record, Transaction::Chargeback arm
Chargeback(max) ==
    \E id \in ClientIds, tx \in TxIds :
        /\ steps < max
        /\ Apply(ChargebackRec(id, tx))
        /\ record'.type = "Chargeback"
        /\ UNCHANGED <<input, row, first_field_count, error>>

\* Runs of events with positive decimal amounts.
Next ==
    \/ Deposit(Amounts, MaxEvents)
    \/ Withdrawal(Amounts, MaxEvents)
    \/ Dispute(MaxEvents)
    \/ Resolve(MaxEvents)
    \/ Chargeback(MaxEvents)

Spec == Init /\ [][Next]_vars

\* Shorter runs of events with amounts of any kind.
NextAnyAmount ==
    \/ Deposit(AnyAmounts, MaxAnyAmountEvents)
    \/ Withdrawal(AnyAmounts, MaxAnyAmountEvents)
    \/ Dispute(MaxAnyAmountEvents)
    \/ Resolve(MaxAnyAmountEvents)
    \/ Chargeback(MaxAnyAmountEvents)

SpecAnyAmount == Init /\ [][NextAnyAmount]_vars

\* Runs of events with fixed-point amounts.
NextFixedPoint ==
    \/ Deposit(FixedPointAmounts, MaxEvents)
    \/ Withdrawal(FixedPointAmounts, MaxEvents)
    \/ Dispute(MaxEvents)
    \/ Resolve(MaxEvents)
    \/ Chargeback(MaxEvents)

SpecFixedPoint == Init /\ [][NextFixedPoint]_vars

\* Longer runs of events that keep to the discipline.
NextDisciplined ==
    \/ Deposit(Amounts, MaxDisciplinedEvents) /\ wellFormed'
    \/ Withdrawal(Amounts, MaxDisciplinedEvents) /\ wellFormed'
    \/ Dispute(MaxDisciplinedEvents) /\ wellFormed'
    \/ Resolve(MaxDisciplinedEvents) /\ wellFormed'
    \/ Chargeback(MaxDisciplinedEvents) /\ wellFormed'

SpecDisciplined == Init /\ [][NextDisciplined]_vars

----------------------------------------------------------------------------
\* The csv input: a record is the sequence of its fields, a field the
\* sequence of its characters.

\* "deposit", "withdrawal", "dispute", "resolve", "chargeback"
TypeDeposit == <<100, 101, 112, 111, 115, 105, 116>>
TypeWithdrawal == <<119, 105, 116, 104, 100, 114, 97, 119, 97, 108>>
TypeDispute == <<100, 105, 115, 112, 117, 116, 101>>
TypeResolve == <<114, 101, 115, 111, 108, 118, 101>>
TypeChargeback == <<99, 104, 97, 114, 103, 101, 98, 97, 99, 107>>

\* The event types parse_record knows.
KnownTypes == {TypeDeposit, TypeWithdrawal, TypeDispute, TypeResolve, TypeChargeback}

\* The fields of the rows of the input.
\* type: the known ones and "transfer"
TypeFields == KnownTypes \cup {<<116, 114, 97, 110, 115, 102, 101, 114>>}
\* client: "0", " +1\t", "x"
ClientFields == {<<48>>, <<32, 43, 49, 9>>, <<120>>}
\* tx: "0", "1 ", "-1"
TxFields == {<<48>>, <<49, 32>>, <<45, 49>>}
\* amount: " 2.0", "1e-1", "inf", "NaN", ""
AmountFields ==
    {<<32, 50, 46, 48>>, <<49, 101, 45, 49>>, <<105, 110, 102>>, <<78, 97, 78>>, <<>>}

\* The rows of the input: of the four fields `type, client, tx, amount`, or
\* of the first one, two or three of them.
Rows ==
    {SubSeq(<<t, c, x, a>>, 1, n) :
        t \in TypeFields, c \in ClientFields, x \in TxFields, a \in AmountFields,
        n \in 1..4}

\* Result::unwrap of an Err, or an index out of bounds: parse_record panics.
ParsePanic == [some |-> FALSE, panic |-> TRUE]

\* StringRecord's index expression record[i]: None when the record has no
\* field i (the expression panics).
Field(r, i) == IF i + 1 \in DOMAIN r THEN Some(r[i + 1]) ELSE None

\* Engine::parse_record: Some(transaction), None for an unknown type; the
\* fields are indexed and parsed, each with unwrap, only in the arm of a
\* known type.
parse_record(r) ==
    LET client_id == IF IsSome(Field(r, 1))
                     THEN ParseUnsigned(Trim(Field(r, 1).val), U16_MAX)
                     ELSE None
        tx == IF IsSome(Field(r, 2))
              THEN ParseUnsigned(Trim(Field(r, 2).val), U32_MAX)
              ELSE None
        amount == IF IsSome(Field(r, 3))
                  THEN ParseAmount(Trim(Field(r, 3).val))
                  ELSE None
    IN  IF ~IsSome(Field(r, 0))
        THEN ParsePanic
        ELSE IF Field(r, 0).val \in {TypeDeposit, TypeWithdrawal}
        THEN IF IsSome(client_id) /\ IsSome(tx) /\ IsSome(amount)
             THEN IF Field(r, 0).val = TypeDeposit
                  THEN Some(DepositRec(client_id.val, tx.val, amount.val))
                  ELSE Some(WithdrawalRec(client_id.val, tx.val, amount.val))
             ELSE ParsePanic
        ELSE IF Field(r, 0).val \in {TypeDispute, TypeResolve, TypeChargeback}
        THEN IF IsSome(client_id) /\ IsSome(tx)
             THEN CASE Field(r, 0).val = TypeDispute ->
                           Some(DisputeRec(client_id.val, tx.val))
                    [] Field(r, 0).val = TypeResolve ->
                           Some(ResolveRec(client_id.val, tx.val))
                    [] Field(r, 0).val = TypeChargeback ->
                           Some(ChargebackRec(client_id.val, tx.val))
             ELSE ParsePanic
        ELSE None

\* parse_record of every row of the input.
Parsed == [r \in Rows |-> parse_record(r)]

\* A row that does not reach handle_record: the engine is left as it is,
\* and the run is over when parse_record has panicked (abort) or the reader
\* has returned an error (err other than NoError).
Drop(abort, err) ==
    /\ panicked' = abort
    /\ error' = err
    /\ record' = NoRec
    /\ pre' = Engine
    /\ recordedPre' = recorded
    /\ steps' = steps + 1
    /\ UNCHANGED <<transactions, clients, disbutes, recorded, accepted, closed,
                   owner, used, touched, funded, wellFormed>>

\* One turn of the loop over reader.records() with the record r.  The
\* reader takes the first record as the header; a later record with
\* another number of fields is an Err, which `record?` returns; any other
\* is parsed and, when parse_record returns a transaction, handled.
Turn(r) ==
    IF first_field_count = 0
    THEN /\ first_field_count' = Len(r)
         /\ UNCHANGED <<transactions, clients, disbutes, panicked, record, pre,
                        recorded, accepted, closed, steps, recordedPre, owner,
                        used, touched, funded, wellFormed, row, error>>
    ELSE /\ row' = r
         /\ UNCHANGED first_field_count
         /\ IF Len(r) # first_field_count
            THEN Drop(FALSE, UnequalLengths)
            ELSE IF IsSome(Parsed[r])
                 THEN Apply(Parsed[r].val) /\ UNCHANGED error
                 ELSE Drop(Parsed[r] = ParsePanic, NoError)

\* The `?` of File::open(file)? or of record? on an Err that comes with no
\* record: the function returns err, the engine as it is.
Fail(err) ==
    /\ error' = err
    /\ row' = NoRow
    /\ record' = NoRec
    /\ pre' = Engine
    /\ recordedPre' = recorded
    /\ UNCHANGED <<transactions, clients, disbutes, panicked, recorded, accepted,
                   closed, steps, owner, used, touched, funded, wellFormed,
                   first_field_count>>

\* The call in progress goes on: it has neither panicked nor returned, and
\* the input has records left.
Running ==
    /\ ~panicked
    /\ error = NoError
    /\ steps < MaxRows

\* Engine::from_str, one turn of its loop: a &str is read without error.
from_str ==
    \E r \in Rows :
        /\ input \in {"None", "Str"}
        /\ Running
        /\ input' = "Str"
        /\ Turn(r)

\* Engine::read_file: File::open fails; or, the file open, a read of the
\* reader fails (from its first read on: the path of a directory opens and
\* cannot be read); or one turn of its loop.
read_file ==
    \/ /\ input = "None"
       /\ Running
       /\ input' = "File"
       /\ Fail(OpenError)
    \/ /\ input \in {"None", "File"}
       /\ Running
       /\ input' = "File"
       /\ Fail(ReadError)
    \/ \E r \in Rows :
           /\ input \in {"None", "File"}
           /\ Running
           /\ input' = "File"
           /\ Turn(r)

NextCsv == from_str \/ read_file

SpecCsv == Init /\ [][NextCsv]_vars

----------------------------------------------------------------------------
\* The account the last record names, before and after the call.
PreClient == GetClient(pre, record.id)
PostClient == GetClient(Engine, record.id)

\* The amount the ledger store held for the last record's tx before the call.
PreAmount == pre.transactions[record.tx]

\* C1: with fixed-point amounts (the runs of SpecFixedPoint), after every
\* event every existing account has total == available + held.
C1_TotalIsAvailablePlusHeld ==
    \A i \in DOMAIN clients :
        IsSome(clients[i]) =>
            F64Eq(clients[i].val.total,
                  F64Add(clients[i].val.available, clients[i].val.held))

\* C1 witness: an accepted Chargeback has taken its amount off the total and
\* the held funds of an account that is left with held funds and a
\* negative available balance (a tx disputed twice).
C1_Witness ==
    /\ record.type = "Chargeback"
    /\ CloseAccepted(pre, record)
    /\ IsSome(PostClient)
    /\ ~IsZero(PostClient.val.held)
    /\ ~IsZero(PostClient.val.available)
    /\ PostClient.val.available.sign = 1
    /\ PostClient.val.total # PreClient.val.total

\* C2: a Deposit or Withdrawal naming a locked account changes nothing: the
\* accounts and the ledger store are as before (and the call does not fail).
C2_LockedTransactionNoOp ==
    (IsTransaction(record) /\ IsSome(PreClient) /\ PreClient.val.locked) =>
        /\ clients = pre.clients
        /\ transactions = pre.transactions
        /\ disbutes = pre.disbutes
        /\ ~panicked

\* C2 witness: a Deposit/Withdrawal was handled for a locked account, with a
\* tx slot whose stored amount differs from the event's signed amount.
C2_Witness ==
    /\ IsTransaction(record)
    /\ IsSome(PreClient)
    /\ PreClient.val.locked
    /\ record.tx \in DOMAIN transactions
    /\ transactions[record.tx] # SignedAmount(record)

\* C3 (as claimed): a Dispute naming a transaction already marked disputed
\* changes no account, no stored amount and no dispute flag.
C3_DoubleDisputeIgnored ==
    (record.type = "Dispute" /\ VecGet(pre.disbutes, record.tx) = Some(TRUE)) =>
        /\ clients = pre.clients
        /\ transactions = pre.transactions
        /\ disbutes = pre.disbutes

\* C4 (as claimed): a Dispute naming an existing account and a tx id that no
\* Deposit/Withdrawal has recorded changes nothing, the tx's dispute flag included.
C4_UnknownTxDisputeNoOp ==
    (record.type = "Dispute" /\ IsSome(PreClient) /\ record.tx \notin recorded) =>
        /\ clients = pre.clients
        /\ transactions = pre.transactions
        /\ disbutes = pre.disbutes

\* C5 (as claimed): a dispute flag is true only while an accepted Dispute of
\* that tx (account existing, tx recorded by an earlier Deposit/Withdrawal) has
\* not been followed by an accepted Resolve or Chargeback.
C5_FlagOnlyWhileDisputeOpen ==
    \A t \in DOMAIN disbutes : disbutes[t] => accepted[t]

\* C6 (as claimed): handle_record never fails, for every account id in
\* 0..U16_MAX and every tx id in 0..U32_MAX.
C6_NeverFails == ~panicked

\* C7 (as claimed): a Deposit/Withdrawal naming an unlocked or not yet existing
\* account adds the signed amount to available and total (from zero balances
\* for a new account), keeps held and locked, and stores the signed amount
\* under the tx id.
C7_TransactionApplied ==
    (IsTransaction(record) /\ ~(IsSome(PreClient) /\ PreClient.val.locked)) =>
        LET old == IF IsSome(PreClient) THEN PreClient.val ELSE ClientNew(record.id)
            a == SignedAmount(record)
        IN  /\ IsSome(PostClient)
            /\ PostClient.val.available = F64Add(old.available, a)
            /\ PostClient.val.total = F64Add(old.total, a)
            /\ PostClient.val.held = old.held
            /\ PostClient.val.locked = old.locked
            /\ VecGet(transactions, record.tx) = Some(a)

\* The case of C8: the last record is a Dispute naming an existing account
\* and a recorded tx that was not marked disputed.
C8_Case ==
    /\ record.type = "Dispute"
    /\ IsSome(PreClient)
    /\ record.tx \in recorded
    /\ ~pre.disbutes[record.tx]

\* C8: such a Dispute subtracts the recorded amount from available, adds it
\* to held, keeps total and locked, and sets the tx's dispute flag.
C8_DisputeMovesAmount ==
    C8_Case =>
        /\ IsSome(PostClient)
        /\ PostClient.val.available = F64Sub(PreClient.val.available, PreAmount)
        /\ PostClient.val.held = F64Add(PreClient.val.held, PreAmount)
        /\ PostClient.val.total = PreClient.val.total
        /\ PostClient.val.locked = PreClient.val.locked
        /\ disbutes[record.tx] = TRUE

\* C8 witness: such a Dispute of a non-zero amount has changed available
\* and held.
C8_Witness ==
    /\ C8_Case
    /\ ~IsZero(PreAmount)
    /\ PostClient.val.available # PreClient.val.available
    /\ PostClient.val.held # PreClient.val.held

\* The case of C9: the last record is a Dispute naming an existing account
\* and a recorded tx that was not marked disputed, and the step is the call
\* of handle_record with the Resolve of the same account and tx.
C9_Case ==
    /\ C8_Case
    /\ record' = ResolveRec(record.id, record.tx)

\* The step restores the account's available, held and total to their
\* values before the Dispute and leaves the dispute flag false.
C9_Restored ==
    C9_Case =>
        /\ IsSome(clients'[record.id])
        /\ F64Eq(clients'[record.id].val.available, PreClient.val.available)
        /\ F64Eq(clients'[record.id].val.held, PreClient.val.held)
        /\ F64Eq(clients'[record.id].val.total, PreClient.val.total)
        /\ disbutes'[record.tx] = FALSE

\* C9 (as claimed): Dispute then Resolve restores the account's available,
\* held and total to their values before the Dispute and leaves the dispute
\* flag false.
C9_DisputeResolveRoundTrip == [][C9_Restored]_vars

\* The case of C10: the last record is a Chargeback naming an existing
\* account and a recorded tx that is marked disputed.
C10_Case ==
    /\ record.type = "Chargeback"
    /\ IsSome(PreClient)
    /\ record.tx \in recorded
    /\ VecGet(pre.disbutes, record.tx) = Some(TRUE)

\* The amount 2.0.
Two == Decimal(<<50, 46, 48>>)

\* The scenario of C10: Deposit(1,1,2.0), Dispute(1,1), Chargeback(1,1) on a
\* new engine (the first two are the only two calls that take a new engine
\* to the one the Chargeback is handled in).
C10_Scenario ==
    /\ steps = 3
    /\ pre = handle_record(handle_record(EngineNew, DepositRec(1, 1, Two)),
                           DisputeRec(1, 1))
    /\ record = ChargebackRec(1, 1)

\* C10: such a Chargeback subtracts the recorded amount from total and from
\* held, keeps available, locks the account and clears the dispute flag;
\* after the scenario account 1 has available = held = total = 0.0 and is
\* locked.
C10_ChargebackEffect ==
    /\ C10_Case =>
        /\ IsSome(PostClient)
        /\ PostClient.val.total = F64Sub(PreClient.val.total, PreAmount)
        /\ PostClient.val.held = F64Sub(PreClient.val.held, PreAmount)
        /\ PostClient.val.available = PreClient.val.available
        /\ PostClient.val.locked = TRUE
        /\ disbutes[record.tx] = FALSE
    /\ C10_Scenario =>
        clients[1] = Some([id |-> 1, available |-> F64Zero(0), held |-> F64Zero(0),
                           total |-> F64Zero(0), locked |-> TRUE])

\* C10 witness: the scenario has been run.
C10_Witness == C10_Scenario /\ C10_Case

\* The last record is a Dispute, Resolve or Chargeback.
IsDisputePath(r) == r.type \in {"Dispute", "Resolve", "Chargeback"}

\* The case of C11: the last record is a Resolve or Chargeback naming a tx
\* whose dispute flag was false (an id without a flag reads as false).
C11_Case ==
    /\ record.type \in {"Resolve", "Chargeback"}
    /\ VecGet(pre.disbutes, record.tx) # Some(TRUE)

\* C11: such a Resolve or Chargeback changes no account, no stored amount
\* and no dispute flag, and does not fail.
C11_UndisputedCloseNoOp ==
    C11_Case =>
        /\ clients = pre.clients
        /\ transactions = pre.transactions
        /\ disbutes = pre.disbutes
        /\ ~panicked

\* C11 witness: such a Resolve or Chargeback was handled for a tx that an
\* earlier Chargeback has closed, naming the account that Chargeback locked;
\* the tx has a non-zero recorded amount.
C11_Witness ==
    /\ C11_Case
    /\ record.tx \in closed
    /\ IsSome(PreClient)
    /\ PreClient.val.locked
    /\ record.tx \in recordedPre
    /\ ~IsZero(PreAmount)

\* The case of C12: the last record is a Dispute, Resolve or Chargeback
\* naming an account id for which no account exists.
C12_Case ==
    /\ IsDisputePath(record)
    /\ ~IsSome(PreClient)

\* C12: such an event creates no account and changes no account, no stored
\* amount and no dispute flag.
C12_NoAccountNoChange ==
    C12_Case =>
        /\ clients = pre.clients
        /\ transactions = pre.transactions
        /\ disbutes = pre.disbutes
        /\ ~panicked

\* C12 witness: such an event named a tx that another account had recorded
\* (for a Resolve or Chargeback: and that was marked disputed).
C12_Witness ==
    /\ C12_Case
    /\ record.id \in DOMAIN clients
    /\ record.tx \in recorded
    /\ ~IsZero(PreAmount)
    /\ record.type # "Dispute" => pre.disbutes[record.tx]

\* The case of C13: the last record is a Deposit or Withdrawal naming a tx id
\* under which an earlier Deposit or Withdrawal had recorded an amount.
C13_Case ==
    /\ IsTransaction(record)
    /\ record.tx \in recordedPre

\* C13 (as claimed): such a Deposit or Withdrawal does not change the amount
\* stored for the tx id (the first amount recorded is kept).
C13_FirstAmountKept ==
    C13_Case => transactions[record.tx] = pre.transactions[record.tx]

\* C13 (amended): such a Deposit or Withdrawal replaces the amount stored for
\* the tx id by its own signed amount when it is applied to its account (the
\* last amount recorded is kept); it leaves the stored amount as it was only
\* when it is dropped for a locked account or aborted.
C13_LastAmountWins ==
    C13_Case =>
        IF Records(pre, record)
        THEN transactions[record.tx] = SignedAmount(record)
        ELSE transactions[record.tx] = pre.transactions[record.tx]

\* C13 witness: a Deposit or Withdrawal reusing a tx id has replaced a
\* different stored amount.
C13_Witness ==
    /\ C13_Case
    /\ Records(pre, record)
    /\ pre.transactions[record.tx] # SignedAmount(record)
    /\ transactions[record.tx] = SignedAmount(record)

\* Account i was locked when handle_record was last called / is locked now.
WasLocked(i) == IsSome(pre.clients[i]) /\ pre.clients[i].val.locked
IsLocked(i) == IsSome(clients[i]) /\ clients[i].val.locked

\* The last record is an accepted Chargeback naming account i.
ChargedBack(i) ==
    /\ record.type = "Chargeback"
    /\ record.id = i
    /\ CloseAccepted(pre, record)

\* C14: an account's locked flag is false when the account is created, turns
\* true at (and only at) an accepted Chargeback naming the account, and once
\* true stays true over every event.
C14_LockedOnlyByChargeback ==
    \A i \in DOMAIN clients :
        /\ (~IsSome(pre.clients[i]) /\ IsSome(clients[i])) =>
               (~clients[i].val.locked /\ ~ChargedBack(i))
        /\ ChargedBack(i) => IsLocked(i)
        /\ (IsLocked(i) /\ ~WasLocked(i)) => ChargedBack(i)
        /\ WasLocked(i) => IsLocked(i)

\* C14 witness: an event has changed the balances of an account that was
\* locked and the account is still locked.
C14_Witness ==
    \E i \in DOMAIN clients :
        /\ WasLocked(i)
        /\ IsLocked(i)
        /\ record.id = i
        /\ clients[i] # pre.clients[i]

\* The number of entries the snapshot holds for account id i.
Entries(i) ==
    Cardinality({k \in DOMAIN dump_clients(Engine) : dump_clients(Engine)[k].id = i})

\* C15 (as claimed): when the run has not been aborted, the snapshot holds
\* one entry for every account id that an event of any kind has named.
C15_EveryTouchedAccountListed ==
    ~panicked => \A i \in touched : Entries(i) = 1

\* C15 (amended): when the run has not been aborted, the snapshot holds one
\* entry for every account id that a Deposit or Withdrawal has named, and
\* none for any other id (an id named only by Dispute, Resolve or Chargeback
\* events has no account).
C15_EveryFundedAccountListed ==
    ~panicked => \A i \in ClientIds : Entries(i) = (IF i \in funded THEN 1 ELSE 0)

\* C15 witness: the run is not aborted, one account named by a Deposit or
\* Withdrawal is locked and listed, and an id named only by other events is not.
C15_Witness ==
    /\ ~panicked
    /\ \E i \in funded : Entries(i) = 1 /\ IsLocked(i)
    /\ \E j \in touched \ funded : Entries(j) = 0

\* A numeric field of row r that parse_record parses cannot be parsed.
BadField(r) ==
    /\ Field(r, 0).val \in KnownTypes
    /\ \/ IsSome(Field(r, 1)) /\ ~IsSome(ParseUnsigned(Trim(Field(r, 1).val), U16_MAX))
       \/ IsSome(Field(r, 2)) /\ ~IsSome(ParseUnsigned(Trim(Field(r, 2).val), U32_MAX))
       \/ /\ Field(r, 0).val \in {TypeDeposit, TypeWithdrawal}
          /\ IsSome(Field(r, 3))
          /\ ~IsSome(ParseAmount(Trim(Field(r, 3).val)))

\* Row r is malformed: its event type is unknown or a numeric field is unparseable.
Malformed(r) == Field(r, 0).val \notin KnownTypes \/ BadField(r)

\* The malformed rows of the input.
MalformedRows == {r \in Rows : Malformed(r)}

\* C16 (as claimed): a malformed row does not reach handle_record, leaves
\* the engine as it was and does not abort the run, so the rows after it
\* are still read and applied.
C16_MalformedRowDropped ==
    (row # NoRow /\ row \in MalformedRows) =>
        /\ record = NoRec
        /\ clients = pre.clients
        /\ transactions = pre.transactions
        /\ disbutes = pre.disbutes
        /\ ~panicked
        /\ error = NoError

\* The Dispute, Resolve and Chargeback records naming account id.
DisputePathRecs(id) ==
    {DisputeRec(id, tx) : tx \in TxIds} \cup {ResolveRec(id, tx) : tx \in TxIds}
        \cup {ChargebackRec(id, tx) : tx \in TxIds}

\* The engine e with account id unlocked, all else the same.
Unlocked(e, id) ==
    [e EXCEPT !.clients[id] = Some([e.clients[id].val EXCEPT !.locked = FALSE])]

\* C17: in every state, a Dispute, Resolve or Chargeback handled for a locked
\* account changes available, held, total and the dispute flags exactly as
\* it does when handled in the same state with the account unlocked.
C17_DisputePathNotGated ==
    \A id \in DOMAIN clients :
        IsLocked(id) =>
            \A r \in DisputePathRecs(id) :
                LET l == handle_record(Engine, r)
                    u == handle_record(Unlocked(Engine, id), r)
                IN  /\ l.clients[id].val.available = u.clients[id].val.available
                    /\ l.clients[id].val.held = u.clients[id].val.held
                    /\ l.clients[id].val.total = u.clients[id].val.total
                    /\ l.disbutes = u.disbutes
                    /\ l.panicked = u.panicked

\* C17 witness: a Dispute has moved a non-zero amount of a locked account,
\* which now is locked with an open dispute that a Resolve or Chargeback
\* would act on.
C17_Witness ==
    /\ record.type = "Dispute"
    /\ record.id \in DOMAIN clients
    /\ WasLocked(record.id)
    /\ IsLocked(record.id)
    /\ PostClient.val.held # PreClient.val.held
    /\ disbutes[record.tx]
    /\ handle_record(Engine, ResolveRec(record.id, record.tx)).clients # clients
    /\ handle_record(Engine, ChargebackRec(record.id, record.tx)).clients # clients

\* The case of C18: the last record is a Dispute, Resolve or Chargeback
\* naming an existing account and a tx that another account recorded.
C18_Case ==
    /\ IsDisputePath(record)
    /\ IsSome(PreClient)
    /\ Foreign(record, owner)

\* The account that recorded the tx of the last record.
TxOwner == owner[record.tx].val

\* C18 (as claimed): such an event changes neither the named account nor
\* the account that recorded the tx, and leaves the tx's dispute flag.
C18_ForeignTxNoChange ==
    C18_Case =>
        /\ PostClient = PreClient
        /\ clients[TxOwner] = pre.clients[TxOwner]
        /\ disbutes[record.tx] = pre.disbutes[record.tx]

\* C18 (amended): such an event changes no account but the one it names, so
\* the account that recorded the tx is unchanged; the named account is
\* handled as if the tx were its own: a Dispute moves the stored amount from
\* its available to its held and sets the tx's dispute flag.
C18_OnlyNamedAccountChanges ==
    C18_Case =>
        /\ \A i \in DOMAIN clients : i # record.id => clients[i] = pre.clients[i]
        /\ record.type = "Dispute" =>
            /\ PostClient.val.available = F64Sub(PreClient.val.available, PreAmount)
            /\ PostClient.val.held = F64Add(PreClient.val.held, PreAmount)
            /\ PostClient.val.total = PreClient.val.total
            /\ PostClient.val.locked = PreClient.val.locked
            /\ disbutes[record.tx] = TRUE

\* C18 witness: a Dispute of another account's tx has moved a non-zero
\* amount in the account it names.
C18_Witness ==
    /\ C18_Case
    /\ record.type = "Dispute"
    /\ ~IsZero(PreAmount)
    /\ PostClient.val.held # PreClient.val.held
    /\ clients[TxOwner] = pre.clients[TxOwner]

\* The sum of the stored amounts of the tx ids in ts.
RECURSIVE SumAmounts(_)
SumAmounts(ts) ==
    IF ts = {} THEN F64Zero(0)
    ELSE LET t == CHOOSE x \in ts : TRUE
         IN  F64Add(transactions[t], SumAmounts(ts \ {t}))

\* The tx ids account i recorded whose dispute flag is true.
DisputedOf(i) ==
    {t \in DOMAIN transactions : owner[t] = Some(i) /\ disbutes[t]}

\* C19 (as claimed): as long as no tx id has been reused by a
\* Deposit/Withdrawal, every Dispute/Resolve/Chargeback has named the account
\* that recorded its tx, and no Dispute has named an unrecorded or already
\* disputed tx, each account's held is the sum of the stored amounts of its
\* disputed tx ids.
C19_HeldIsSumOfDisputed ==
    wellFormed =>
        \A i \in DOMAIN clients :
            IsSome(clients[i]) =>
                F64Eq(clients[i].val.held, SumAmounts(DisputedOf(i)))

====
